---- MODULE Spec2Model ----
(***************************************************************************)
(* A state-machine model of the MCP client's tool invocation core:         *)
(*   - the server actions of app/actions/mcp.ts (MCPServerClient,          *)
(*     clientPool and the exported connect / operate / disconnect          *)
(*     functions), one step per await;                                     *)
(*   - the client-side wrappers of app/utils/mcp-client-hooks.ts;          *)
(*   - the localStorage-backed config and tool-selection store of          *)
(*     app/utils/storage.ts;                                               *)
(*   - the tool registry of app/utils/tool-registry.ts (refreshTools, one  *)
(*     step per await, several runs in flight at once);                    *)
(*   - the coordinator of app/utils/use-chat.ts (onToolCall, handleSubmit, *)
(*     sendMessage);                                                       *)
(*   - the permission gate of app/utils/tool-permissions.ts.               *)
(* Spec drives the server actions, SpecChat the registry and onToolCall,   *)
(* SpecSubmit the registry and the submit handlers, SpecGate the           *)
(* permission gate. React state is committed atomically and a handler      *)
(* reads the latest committed state.                                       *)
(* Strings are the program's strings; a JSON document kept in localStorage *)
(* is represented by the object it denotes (a function from field names).  *)
(***************************************************************************)
EXTENDS Integers, Sequences, FiniteSets, TLC

\* ------------------------------------------------------------------ bounds
\* server-action invocations started over one behaviour
MaxCalls == 2

\* ------------------------------------------------------------- input sets
ServiceIds == {"github", "jira"}
\* the serviceId the server actions and their wrappers are driven with
PoolServiceIds == {"github"}
Urls == {"", " ", "not-a-url", "http://a"}
Configs == {[url |-> u] : u \in Urls}
\* "no config argument" of listMCPTools / listMCPPrompts / listMCPResources
NoConfig == [undefined |-> TRUE]

\* ---------------------------------------------------------- string helpers
startsWith(s, p) == Len(s) >= Len(p) /\ SubSeq(s, 1, Len(p)) = p

includes(s, w) ==
  \E i \in 1..(Len(s) - Len(w) + 1) : SubSeq(s, i, i + Len(w) - 1) = w

RECURSIVE trimStart(_)
trimStart(s) ==
  IF Len(s) > 0 /\ SubSeq(s, 1, 1) = " " THEN trimStart(SubSeq(s, 2, Len(s))) ELSE s

RECURSIVE trimEnd(_)
trimEnd(s) ==
  IF Len(s) > 0 /\ SubSeq(s, Len(s), Len(s)) = " "
  THEN trimEnd(SubSeq(s, 1, Len(s) - 1)) ELSE s

trim(s) == trimEnd(trimStart(s))

\* new URL(u) does not throw: u, stripped of surrounding white space, is an
\* absolute URL, that is, it starts with a scheme followed by ":"
isAbsoluteURL(u) ==
  LET t == trim(u)
  IN \E i \in 2..Len(t) :
       /\ SubSeq(t, i, i) = ":"
       /\ \A j \in 1..(i - 1) : SubSeq(t, j, j) \notin {":", "/", " ", "-"}

\* ------------------------------------------------------------ config store
STORAGE_PREFIX == "mcp-client"

getStorageKey(serviceId) == STORAGE_PREFIX \o "-" \o serviceId

VARIABLES
  localStorage,   \* key -> stored JSON document
  clients,        \* every MCPServerClient constructed so far
  clientPool,     \* serviceId -> index into clients, 0 when absent
  calls,          \* server-action / hook invocations, in start order
  tools,          \* useToolRegistry state.tools
  aiTools,        \* useToolRegistry state.aiTools, the published manifest
  refreshes,      \* the refreshTools runs started so far
  published,      \* what the latest publishing refreshTools run wrote
  serviceConfigs, \* useChat state serviceConfigs
  toolCalls,      \* the onToolCall invocations started so far
  submits,        \* what each handleSubmit so far did
  messages,       \* chat.messages of the AI SDK chat hook
  pendingRequests,    \* useToolPermissions state.pendingRequests
  approvedTools,      \* useToolPermissions state.approvedTools
  deniedTools,        \* useToolPermissions state.deniedTools
  sessionPermissions, \* useToolPermissions state.sessionPermissions
  promises,       \* the promises requestPermission has returned so far
  sessionApproved,\* tool names the user approved since the session began
  sessionDenied,  \* tool names the user denied since the session began
  conversationDecided, \* tool names the user decided on in this conversation
  bus,            \* the selection-change notifications emitted so far
  toolDefinition, \* the MCPToolDefinition given to convertToAISDKTool
  aiTool,         \* the AISDKTool made from it, schemas and risk level included
  parsed          \* what validating an argument object against it gave

storeVars == <<localStorage>>
serverVars == <<clients, clientPool, calls>>
registryVars == <<tools, aiTools, refreshes, published>>
chatVars == <<serviceConfigs, toolCalls, submits, messages>>
gateVars == <<pendingRequests, approvedTools, deniedTools, sessionPermissions,
              promises, sessionApproved, sessionDenied, conversationDecided>>
busVars == <<bus>>
convertVars == <<toolDefinition, aiTool, parsed>>
browserVars == <<registryVars, chatVars, gateVars, busVars, convertVars>>
vars == <<storeVars, serverVars, browserVars>>

NoClient == 0

hasUrl(config) == "url" \in DOMAIN config

\* !config.url || config.url.trim() === ''
urlIsBlank(config) ==
  \/ ~hasUrl(config)
  \/ config["url"] = ""
  \/ trim(config["url"]) = ""

\* new URL(config.url) throws
urlIsInvalid(config) == ~hasUrl(config) \/ ~isAbsoluteURL(config["url"])

saveServiceConfig(serviceId, config) ==
  /\ localStorage' =
       [k \in DOMAIN localStorage \cup {getStorageKey(serviceId)} |->
          IF k = getStorageKey(serviceId) THEN config ELSE localStorage[k]]
  /\ UNCHANGED <<serverVars, browserVars>>

removeServiceConfig(serviceId) ==
  /\ getStorageKey(serviceId) \in DOMAIN localStorage
  /\ localStorage' =
       [k \in DOMAIN localStorage \ {getStorageKey(serviceId)} |-> localStorage[k]]
  /\ UNCHANGED <<serverVars, browserVars>>

\* the stored config, or NoConfig for null
loadServiceConfig(serviceId) ==
  IF getStorageKey(serviceId) \in DOMAIN localStorage
  THEN localStorage[getStorageKey(serviceId)]
  ELSE NoConfig

\* ---------------------------------------------------------- MCPServerClient
\* The fields config, transport, isConnected are the class's; the counters
\* record what the client has done: connects = transport connections
\* attempted (client.connect(transport)), ops = remote operations issued,
\* disconnects = calls of disconnect(), closes = calls of client.close().
MCPServerClient(config, call) ==
  [config |-> config, transport |-> FALSE, isConnected |-> FALSE,
   everConnected |-> FALSE, connects |-> 0, ops |-> 0, disconnects |-> 0,
   closes |-> 0, closeFailed |-> FALSE, call |-> call]

\* connect(): createTransport() throws on an invalid URL before the
\* transport is used; otherwise the transport connects (ok) or fails.
connectThrows(cl, ok) == urlIsInvalid(cl.config) \/ ~ok

\* connect() without the URL check of createTransport()
connect_unchecked(cl, ok) ==
  [cl EXCEPT !.transport = TRUE,
             !.connects = @ + 1,
             !.isConnected = IF ok /\ ~urlIsInvalid(cl.config) THEN TRUE ELSE @,
             !.everConnected = IF ok /\ ~urlIsInvalid(cl.config) THEN TRUE ELSE @]

connect(cl, ok) ==
  IF urlIsInvalid(cl.config) THEN cl
  ELSE [cl EXCEPT !.transport = TRUE,
                  !.connects = @ + 1,
                  !.isConnected = IF ok THEN TRUE ELSE @,
                  !.everConnected = IF ok THEN TRUE ELSE @]

\* disconnect(): closes only a connected client; a throwing close() is
\* swallowed and leaves isConnected set.
disconnect(cl, closeOk) ==
  IF cl.isConnected
  THEN [cl EXCEPT !.disconnects = @ + 1,
                  !.closes = @ + 1,
                  !.isConnected = ~closeOk,
                  !.closeFailed = IF closeOk THEN @ ELSE TRUE]
  ELSE [cl EXCEPT !.disconnects = @ + 1]

\* listTools / callTool / listPrompts / getPrompt / listResources /
\* readResource: ensureConnected() throws when not connected, otherwise the
\* remote operation is issued and returns (ok) or throws.
operationThrows(cl, ok) == ~cl.isConnected \/ ~ok

operation(cl) == IF cl.isConnected THEN [cl EXCEPT !.ops = @ + 1] ELSE cl

\* ------------------------------------------------------------ server actions
\* A call is one invocation of an exported function of app/actions/mcp.ts,
\* made directly (via = "actions") or through its wrapper in
\* mcp-client-hooks.ts (via = "hooks"). kind: "stateless" (own client:
\* connect, one operation, disconnect), "connectTo", "disconnectFrom",
\* "pooled" (an operation on the pooled client), "none" (returns at once).
\* client is the function's local variable client, target the client an
\* awaited method runs on. pc is the await the call is suspended at.
Call(kind, via, serviceId, config, pc, client, target, result) ==
  [kind |-> kind, via |-> via, serviceId |-> serviceId, config |-> config,
   pc |-> pc, client |-> client, target |-> target, result |-> result]

CallIds == 1..Len(calls)

canStart == Len(calls) < MaxCalls

\* return { success: false, error } before any client exists
returnEarly(kind, via, config) ==
  /\ calls' = Append(calls, Call(kind, via, "", config, "done", NoClient, NoClient, "fail"))
  /\ UNCHANGED <<clients, clientPool>>

\* client = new MCPServerClient(config); await client.connect()
newClient(kind, via, config) ==
  /\ clients' = Append(clients, MCPServerClient(config, Len(calls) + 1))
  /\ calls' = Append(calls, Call(kind, via, "", config, "connect",
                                 Len(clients) + 1, Len(clients) + 1, "none"))
  /\ UNCHANGED clientPool

\* await poolClient.<operation>() on the client found in the pool
usePooled(via, config, serviceId) ==
  IF clientPool[serviceId] = NoClient
  THEN returnEarly("pooled", via, config)
  ELSE /\ calls' = Append(calls, Call("pooled", via, "", config, "op", NoClient,
                                      clientPool[serviceId], "none"))
       /\ UNCHANGED <<clients, clientPool>>

testMCPConnection(config, via) ==
  /\ IF urlIsBlank(config) \/ urlIsInvalid(config)
     THEN returnEarly("stateless", via, config)
     ELSE newClient("stateless", via, config)
  /\ UNCHANGED <<storeVars, browserVars>>

callMCPToolWithConfig(config, via) ==
  /\ newClient("stateless", via, config)
  /\ UNCHANGED <<storeVars, browserVars>>

getMCPPromptWithConfig(config, via) ==
  /\ newClient("stateless", via, config)
  /\ UNCHANGED <<storeVars, browserVars>>

readMCPResourceWithConfig(config, via) ==
  /\ newClient("stateless", via, config)
  /\ UNCHANGED <<storeVars, browserVars>>

listMCPTools(serviceId, config, via) ==
  /\ IF config # NoConfig
     THEN IF urlIsBlank(config) \/ urlIsInvalid(config)
          THEN returnEarly("stateless", via, config)
          ELSE newClient("stateless", via, config)
     ELSE usePooled(via, config, serviceId)
  /\ UNCHANGED <<storeVars, browserVars>>

listMCPPrompts(serviceId, config, via) ==
  /\ IF config # NoConfig
     THEN IF urlIsBlank(config)
          THEN returnEarly("stateless", via, config)
          ELSE newClient("stateless", via, config)
     ELSE usePooled(via, config, serviceId)
  /\ UNCHANGED <<storeVars, browserVars>>

listMCPResources(serviceId, config, via) ==
  /\ IF config # NoConfig
     THEN IF urlIsBlank(config)
          THEN returnEarly("stateless", via, config)
          ELSE newClient("stateless", via, config)
     ELSE usePooled(via, config, serviceId)
  /\ UNCHANGED <<storeVars, browserVars>>

\* the pool-based callMCPTool of app/actions/mcp.ts
callMCPTool(serviceId) ==
  /\ usePooled("actions", NoConfig, serviceId)
  /\ UNCHANGED <<storeVars, browserVars>>

\* getMCPPrompt / readMCPResource of app/actions/mcp.ts: not converted,
\* they return an error at once
getMCPPrompt(serviceId) ==
  /\ returnEarly("none", "actions", NoConfig)
  /\ UNCHANGED <<storeVars, browserVars>>

readMCPResource(serviceId) ==
  /\ returnEarly("none", "actions", NoConfig)
  /\ UNCHANGED <<storeVars, browserVars>>

connectToMCPServer(serviceId, config, via) ==
  /\ IF clientPool[serviceId] # NoClient
     THEN \* await existingClient.disconnect()
          /\ calls' = Append(calls, Call("connectTo", via, serviceId, config,
                                         "disconnectExisting", NoClient,
                                         clientPool[serviceId], "none"))
          /\ UNCHANGED <<clients, clientPool>>
     ELSE /\ clients' = Append(clients, MCPServerClient(config, Len(calls) + 1))
          /\ calls' = Append(calls, Call("connectTo", via, serviceId, config, "connect",
                                         Len(clients) + 1, Len(clients) + 1, "none"))
          /\ UNCHANGED clientPool
  /\ UNCHANGED <<storeVars, browserVars>>

disconnectFromMCPServer(serviceId, via) ==
  /\ IF clientPool[serviceId] # NoClient
     THEN \* await client.disconnect()
          /\ calls' = Append(calls, Call("disconnectFrom", via, serviceId, NoConfig,
                                         "disconnect", NoClient,
                                         clientPool[serviceId], "none"))
          /\ UNCHANGED <<clients, clientPool>>
     ELSE /\ calls' = Append(calls, Call("disconnectFrom", via, serviceId, NoConfig,
                                         "done", NoClient, NoClient, "ok"))
          /\ UNCHANGED <<clients, clientPool>>
  /\ UNCHANGED <<storeVars, browserVars>>

\* ------------------------------------------------- resumptions after an await
setCall(c, pc, result) ==
  calls' = [calls EXCEPT ![c].pc = pc, ![c].result = result]

\* a stateless function resumes after await client.connect(): on a throw
\* the catch block builds the failure and the finally block runs next
statelessConnected(c, ok) ==
  LET cl == clients[calls[c].client]
  IN /\ calls[c].kind = "stateless"
     /\ calls[c].pc = "connect"
     /\ clients' = [clients EXCEPT ![calls[c].client] = connect(cl, ok)]
     /\ IF connectThrows(cl, ok)
        THEN setCall(c, "finally", "fail")
        ELSE setCall(c, "op", "none")
     /\ UNCHANGED <<clientPool, storeVars, browserVars>>

\* as statelessOperated, but a throwing operation returns from the catch
\* block without the finally block
statelessOperated_noFinally(c, ok) ==
  LET cl == clients[calls[c].target]
  IN /\ calls[c].kind = "stateless"
     /\ calls[c].pc = "op"
     /\ clients' = [clients EXCEPT ![calls[c].target] = operation(cl)]
     /\ IF operationThrows(cl, ok)
        THEN setCall(c, "done", "fail")
        ELSE setCall(c, "finally", "ok")
     /\ UNCHANGED <<clientPool, storeVars, browserVars>>

\* a stateless function resumes after its one awaited operation
statelessOperated(c, ok) ==
  LET cl == clients[calls[c].target]
  IN /\ calls[c].kind = "stateless"
     /\ calls[c].pc = "op"
     /\ clients' = [clients EXCEPT ![calls[c].target] = operation(cl)]
     /\ setCall(c, "finally", IF operationThrows(cl, ok) THEN "fail" ELSE "ok")
     /\ UNCHANGED <<clientPool, storeVars, browserVars>>

\* finally { if (client) await client.disconnect() }, then the return
statelessFinally(c, closeOk) ==
  /\ calls[c].kind = "stateless"
  /\ calls[c].pc = "finally"
  /\ IF calls[c].client # NoClient
     THEN clients' = [clients EXCEPT ![calls[c].client] = disconnect(@, closeOk)]
     ELSE UNCHANGED clients
  /\ setCall(c, "done", calls[c].result)
  /\ UNCHANGED <<clientPool, storeVars, browserVars>>

\* an operation awaited on the pooled client returns or throws
pooledOperated(c, ok) ==
  LET cl == clients[calls[c].target]
  IN /\ calls[c].kind = "pooled"
     /\ calls[c].pc = "op"
     /\ clients' = [clients EXCEPT ![calls[c].target] = operation(cl)]
     /\ setCall(c, "done", IF operationThrows(cl, ok) THEN "fail" ELSE "ok")
     /\ UNCHANGED <<clientPool, storeVars, browserVars>>

\* connectToMCPServer resumes after await existingClient.disconnect():
\* clientPool.delete(serviceId), then the new client is built and connects
connectToDisconnected(c, closeOk) ==
  /\ calls[c].kind = "connectTo"
  /\ calls[c].pc = "disconnectExisting"
  /\ clients' = Append([clients EXCEPT ![calls[c].target] = disconnect(@, closeOk)],
                       MCPServerClient(calls[c].config, c))
  /\ clientPool' = [clientPool EXCEPT ![calls[c].serviceId] = NoClient]
  /\ calls' = [calls EXCEPT ![c].pc = "connect",
                            ![c].client = Len(clients) + 1,
                            ![c].target = Len(clients) + 1]
  /\ UNCHANGED <<storeVars, browserVars>>

\* connectToMCPServer resumes after await client.connect(): on success
\* clientPool.set(serviceId, client) and listTools is awaited
connectToConnected(c, ok) ==
  LET cl == clients[calls[c].client]
  IN /\ calls[c].kind = "connectTo"
     /\ calls[c].pc = "connect"
     /\ clients' = [clients EXCEPT ![calls[c].client] = connect(cl, ok)]
     /\ IF connectThrows(cl, ok)
        THEN /\ setCall(c, "done", "fail")
             /\ UNCHANGED clientPool
        ELSE /\ setCall(c, "op", "none")
             /\ clientPool' = [clientPool EXCEPT ![calls[c].serviceId] = calls[c].client]
     /\ UNCHANGED <<storeVars, browserVars>>

\* connectToMCPServer resumes after await client.listTools()
connectToListed(c, ok) ==
  LET cl == clients[calls[c].target]
  IN /\ calls[c].kind = "connectTo"
     /\ calls[c].pc = "op"
     /\ clients' = [clients EXCEPT ![calls[c].target] = operation(cl)]
     /\ setCall(c, "done", IF operationThrows(cl, ok) THEN "fail" ELSE "ok")
     /\ UNCHANGED <<clientPool, storeVars, browserVars>>

\* disconnectFromMCPServer resumes after await client.disconnect():
\* clientPool.delete(serviceId)
disconnectFromDisconnected(c, closeOk) ==
  /\ calls[c].kind = "disconnectFrom"
  /\ calls[c].pc = "disconnect"
  /\ clients' = [clients EXCEPT ![calls[c].target] = disconnect(@, closeOk)]
  /\ clientPool' = [clientPool EXCEPT ![calls[c].serviceId] = NoClient]
  /\ setCall(c, "done", "ok")
  /\ UNCHANGED <<storeVars, browserVars>>

\* ------------------------------------------- wrappers of mcp-client-hooks.ts
\* const config = loadServiceConfig(serviceId); if (!config) return failure
noConfiguration ==
  /\ calls' = Append(calls, Call("none", "hooks", "", NoConfig, "done",
                                 NoClient, NoClient, "fail"))
  /\ UNCHANGED <<clients, clientPool, storeVars, browserVars>>

hooks_callMCPTool(serviceId) ==
  /\ IF loadServiceConfig(serviceId) = NoConfig
     THEN noConfiguration
     ELSE callMCPToolWithConfig(loadServiceConfig(serviceId), "hooks")

hooks_listMCPTools(serviceId) ==
  /\ IF loadServiceConfig(serviceId) = NoConfig
     THEN noConfiguration
     ELSE listMCPTools(serviceId, loadServiceConfig(serviceId), "hooks")

hooks_getMCPPrompt(serviceId) ==
  /\ IF loadServiceConfig(serviceId) = NoConfig
     THEN noConfiguration
     ELSE getMCPPromptWithConfig(loadServiceConfig(serviceId), "hooks")

hooks_listMCPPrompts(serviceId) ==
  /\ IF loadServiceConfig(serviceId) = NoConfig
     THEN noConfiguration
     ELSE listMCPPrompts(serviceId, loadServiceConfig(serviceId), "hooks")

hooks_readMCPResource(serviceId) ==
  /\ IF loadServiceConfig(serviceId) = NoConfig
     THEN noConfiguration
     ELSE readMCPResourceWithConfig(loadServiceConfig(serviceId), "hooks")

hooks_listMCPResources(serviceId) ==
  /\ IF loadServiceConfig(serviceId) = NoConfig
     THEN noConfiguration
     ELSE listMCPResources(serviceId, loadServiceConfig(serviceId), "hooks")

\* ============================================================== browser side
\* A server action called from the browser runs to completion between the
\* call and the resumption of the awaiting function, and none of its steps
\* reads or writes browser state: the browser-side model takes its outcome in
\* the resuming step, computed with the MCPServerClient operators above.
\* checksBlank / checksInvalid: the validation the function does itself.
statelessOutcome(checksBlank, checksInvalid, config, connOk, opOk, closeOk) ==
  LET c0 == MCPServerClient(config, 0)
      c1 == connect(c0, connOk)
      c2 == IF connectThrows(c0, connOk) THEN c1 ELSE operation(c1)
      c3 == disconnect(c2, closeOk)
  IN IF (checksBlank /\ urlIsBlank(config)) \/ (checksInvalid /\ urlIsInvalid(config))
     THEN [made |-> FALSE, client |-> c0, result |-> "fail"]
     ELSE [made |-> TRUE, client |-> c3,
           result |-> IF connectThrows(c0, connOk) \/ operationThrows(c1, opOk)
                      THEN "fail" ELSE "ok"]

Outcomes(checksBlank, checksInvalid, config) ==
  {statelessOutcome(checksBlank, checksInvalid, config, connOk, opOk, closeOk) :
     connOk \in BOOLEAN, opOk \in BOOLEAN, closeOk \in BOOLEAN}

\* what `await <server action>(...)` gives the browser: the action's return
\* value, or a rejection of the call itself (the request to the server
\* failed), whatever the server did
ActionOutcomes(checksBlank, checksInvalid, config) ==
  Outcomes(checksBlank, checksInvalid, config) \cup
  {[o EXCEPT !.result = "rejected"] : o \in Outcomes(checksBlank, checksInvalid, config)}

\* the tools the MCP server at a url lists
BigToolCount == 29

remoteTools(url) ==
  IF url = "http://a" THEN <<"delete_repo", "get_file">>
  ELSE IF url = "http://b" THEN <<"get_file", "send_mail">>
  ELSE IF url = "http://big" THEN [i \in 1..BigToolCount |-> "tool_" \o ToString(i)]
  ELSE << >>

\* -------------------------------------------------------------- storage.ts
TOOL_SELECTION_KEY == STORAGE_PREFIX \o "-tool-selection"

EmptyObject == [k \in {} |-> TRUE]

setItem(store, key, value) ==
  [k \in DOMAIN store \cup {key} |-> IF k = key THEN value ELSE store[k]]

\* s.replace(p, r): the first occurrence of p in s replaced by r
replace(s, p, r) ==
  IF includes(s, p)
  THEN LET i == CHOOSE i \in 1..(Len(s) - Len(p) + 1) :
                  /\ SubSeq(s, i, i + Len(p) - 1) = p
                  /\ \A j \in 1..(i - 1) : SubSeq(s, j, j + Len(p) - 1) # p
       IN SubSeq(s, 1, i - 1) \o r \o SubSeq(s, i + Len(p), Len(s))
  ELSE s

\* the orders localStorage.key(i) may enumerate the stored keys in
KeyOrders(store) ==
  {o \in [1..Cardinality(DOMAIN store) -> DOMAIN store] :
     \A i, j \in DOMAIN o : i # j => o[i] # o[j]}

\* getServiceIds(), the keys enumerated in the given order
RECURSIVE getServiceIds(_)
getServiceIds(keys) ==
  IF keys = << >> THEN << >>
  ELSE IF startsWith(Head(keys), STORAGE_PREFIX)
       THEN <<replace(Head(keys), STORAGE_PREFIX \o "-", "")>> \o getServiceIds(Tail(keys))
       ELSE getServiceIds(Tail(keys))

\* loadServiceConfig(serviceId) on a given store content
storedConfig(store, serviceId) ==
  IF getStorageKey(serviceId) \in DOMAIN store
  THEN store[getStorageKey(serviceId)]
  ELSE NoConfig

\* loadAllServiceConfigs(): serviceId -> config for every key that starts
\* with the prefix and does not contain "-tool-selection"
loadAllServiceConfigs(store) ==
  LET keys == {k \in DOMAIN store :
                 startsWith(k, STORAGE_PREFIX \o "-") /\ ~includes(k, "-tool-selection")}
      ids == {replace(k, STORAGE_PREFIX \o "-", "") : k \in keys}
  IN [id \in ids |-> store[getStorageKey(id)]]

loadToolSelection(store) ==
  IF TOOL_SELECTION_KEY \in DOMAIN store THEN store[TOOL_SELECTION_KEY] ELSE EmptyObject

toolId(serviceId, toolName) == serviceId \o ":" \o toolName

\* toolSelection[toolId] ?? true
isSelected(toolSelection, id) ==
  IF id \in DOMAIN toolSelection THEN toolSelection[id] ELSE TRUE

\* ---------------------------------------------------------- tool-registry.ts
MCPToolDefinition(serviceId, name) == [name |-> name, serviceId |-> serviceId]

convertToAISDKTool(mcpTool) == [name |-> mcpTool.name, serviceId |-> mcpTool.serviceId]

RefreshIds == 1..Len(refreshes)

\* a refreshTools run at its start: order = what getServiceIds() returned,
\* ids = the serviceIds the loop has still to visit, seen = what the loop did
\* with those it has visited
NewRefresh(serviceIds) ==
  [pc |-> "start", order |-> serviceIds, ids |-> serviceIds, config |-> NoConfig,
   allTools |-> << >>, seen |-> << >>]

Seen(serviceId, config, outcome) ==
  [serviceId |-> serviceId, config |-> config, attempted |-> outcome # "skipped",
   success |-> outcome = "ok"]

\* the tools a listTools result maps to (tool-registry.ts:66-82)
serviceTools(serviceId, config) ==
  LET names == remoteTools(config["url"])
  IN [i \in 1..Len(names) |-> MCPToolDefinition(serviceId, names[i])]

\* for (const serviceId of serviceIds): from the top of the loop up to the
\* next await. A serviceId whose loadServiceConfig is null is passed over
\* (continue); the run stops at the first listMCPTools it awaits ("listing")
\* or leaves the loop ("done").
RECURSIVE forEachService(_, _)
forEachService(store, run) ==
  IF run.ids = << >>
  THEN [run EXCEPT !.pc = "done", !.config = NoConfig]
  ELSE IF storedConfig(store, Head(run.ids)) = NoConfig
       THEN forEachService(store,
              [run EXCEPT !.ids = Tail(@),
                          !.seen = Append(@, Seen(Head(run.ids), NoConfig, "skipped"))])
       ELSE [run EXCEPT !.pc = "listing",
                        !.config = storedConfig(store, Head(run.ids))]

\* the published manifest with no selection filter applied
selectedTools_unfiltered(allTools, toolSelection) ==
  [i \in 1..Len(allTools) |-> convertToAISDKTool(allTools[i])]

\* .filter(tool => toolSelection[toolId] ?? true).map(convertToAISDKTool)
selectedTools(allTools, toolSelection) ==
  LET kept == SelectSeq(allTools,
                LAMBDA t : isSelected(toolSelection, toolId(t.serviceId, t.name)))
  IN [i \in 1..Len(kept) |-> convertToAISDKTool(kept[i])]

\* a commit that writes state.tools after every step of the loop
commit_partial(newRefreshes, r, store) ==
  /\ refreshes' = newRefreshes
  /\ tools' = newRefreshes[r].allTools
  /\ IF newRefreshes[r].pc = "done"
     THEN /\ aiTools' = selectedTools(newRefreshes[r].allTools, loadToolSelection(store))
          /\ published' = [run |-> r, store |-> store]
     ELSE UNCHANGED <<aiTools, published>>

\* the run r of newRefreshes has advanced; when it has left the loop it reads
\* the tool selection and publishes with setState (tool-registry.ts:91-114)
commit(newRefreshes, r, store) ==
  /\ refreshes' = newRefreshes
  /\ IF newRefreshes[r].pc = "done"
     THEN /\ tools' = newRefreshes[r].allTools
          /\ aiTools' = selectedTools(newRefreshes[r].allTools, loadToolSelection(store))
          /\ published' = [run |-> r, store |-> store]
     ELSE UNCHANGED <<tools, aiTools, published>>

\* refreshTools() is called and runs up to its first await
refreshTools(store, order) ==
  commit(Append(refreshes, forEachService(store, NewRefresh(getServiceIds(order)))),
         Len(refreshes) + 1, store)

\* const result = await listMCPTools(serviceId) of run r resumes; a failing
\* service ends the enumeration without publishing
refreshListed_abort(r, result) ==
  /\ refreshes[r].pc = "listing"
  /\ LET run == refreshes[r]
         serviceId == Head(run.ids)
         added == IF result = "ok" THEN serviceTools(serviceId, run.config) ELSE << >>
         run2 == [run EXCEPT !.ids = IF result = "ok" THEN Tail(@) ELSE << >>,
                             !.allTools = @ \o added,
                             !.seen = Append(@, Seen(serviceId, run.config, result))]
     IN commit([refreshes EXCEPT ![r] = forEachService(localStorage, run2)],
               r, localStorage)
  /\ UNCHANGED <<storeVars, serverVars, chatVars, gateVars, busVars, convertVars>>

\* const result = await listMCPTools(serviceId) of run r resumes: the tools
\* are pushed when result.success, a rejection is caught and logged, and the
\* loop goes on (tool-registry.ts:63-88)
refreshListed(r, result) ==
  /\ refreshes[r].pc = "listing"
  /\ LET run == refreshes[r]
         serviceId == Head(run.ids)
         added == IF result = "ok" THEN serviceTools(serviceId, run.config) ELSE << >>
         run2 == [run EXCEPT !.ids = Tail(@),
                             !.allTools = @ \o added,
                             !.seen = Append(@, Seen(serviceId, run.config, result))]
     IN commit([refreshes EXCEPT ![r] = forEachService(localStorage, run2)],
               r, localStorage)
  /\ UNCHANGED <<storeVars, serverVars, chatVars, gateVars, busVars, convertVars>>

\* what the wrapper listMCPTools(serviceId) of mcp-client-hooks.ts can give
\* for the config it loads
ListResults(config) == {o.result : o \in ActionOutcomes(TRUE, TRUE, config)}

\* ----------------------------------------------------- selection change bus
\* localStorage.getItem(key): the stored value, or NoItem for null
NoItem == [null |-> TRUE]

getItem(store, key) == IF key \in DOMAIN store THEN store[key] ELSE NoItem

\* what the bus has carried: events = the notifications about the
\* tool-selection key emitted so far ('localStorageChange' in this context,
\* 'storage' from another one), value = the newValue of the latest
Bus(events, value) == [events |-> events, value |-> value]

\* a same-context listener that looks for another key
handleCustomStorageChange_otherKey(key, store) ==
  IF key = "tool-selection"
  THEN \E order \in KeyOrders(store) : refreshTools(store, order)
  ELSE UNCHANGED registryVars

\* useChat's listener for 'localStorageChange' (use-chat.ts:37-42)
handleCustomStorageChange(key, store) ==
  IF key = "mcp-client-tool-selection"
  THEN \E order \in KeyOrders(store) : refreshTools(store, order)
  ELSE UNCHANGED registryVars

\* useChat's listener for 'storage' events of other contexts
\* (use-chat.ts:26-31)
handleStorageChange(key, oldValue, newValue, store) ==
  IF key = "mcp-client-tool-selection" /\ newValue # oldValue
  THEN \E order \in KeyOrders(store) : refreshTools(store, order)
  ELSE UNCHANGED registryVars

\* saveToolSelection(toolSelections): setItem, then dispatchEvent of
\* 'localStorageChange' with detail {key: TOOL_SELECTION_KEY, newValue},
\* which runs the listener before saveToolSelection returns
saveToolSelection(toolSelections) ==
  /\ localStorage' = setItem(localStorage, TOOL_SELECTION_KEY, toolSelections)
  /\ bus' = Bus(bus.events + 1, toolSelections)
  /\ handleCustomStorageChange(TOOL_SELECTION_KEY,
                               setItem(localStorage, TOOL_SELECTION_KEY, toolSelections))
  /\ UNCHANGED <<serverVars, chatVars, gateVars, convertVars>>

toggleToolSelection(serviceId, toolName) ==
  LET currentSelection == loadToolSelection(localStorage)
      currentValue == isSelected(currentSelection, toolId(serviceId, toolName))
  IN saveToolSelection(setItem(currentSelection, toolId(serviceId, toolName), ~currentValue))

setToolSelection(serviceId, toolName, selected) ==
  saveToolSelection(setItem(loadToolSelection(localStorage),
                            toolId(serviceId, toolName), selected))

\* another browsing context of the same origin runs toggleToolSelection:
\* the shared localStorage changes and this context gets a 'storage' event
otherContextToggle(serviceId, toolName) ==
  LET currentSelection == loadToolSelection(localStorage)
      currentValue == isSelected(currentSelection, toolId(serviceId, toolName))
      newSelection == setItem(currentSelection, toolId(serviceId, toolName), ~currentValue)
      store == setItem(localStorage, TOOL_SELECTION_KEY, newSelection)
  IN /\ localStorage' = store
     /\ bus' = Bus(bus.events + 1, newSelection)
     /\ handleStorageChange(TOOL_SELECTION_KEY, getItem(localStorage, TOOL_SELECTION_KEY),
                            newSelection, store)
     /\ UNCHANGED <<serverVars, chatVars, gateVars, convertVars>>

\* another browsing context saves a service config: the 'storage' event is
\* for that config's key
otherContextSave(serviceId, config) ==
  /\ localStorage' = setItem(localStorage, getStorageKey(serviceId), config)
  /\ handleStorageChange(getStorageKey(serviceId),
                         getItem(localStorage, getStorageKey(serviceId)), config,
                         setItem(localStorage, getStorageKey(serviceId), config))
  /\ UNCHANGED <<serverVars, chatVars, gateVars, busVars, convertVars>>

\* clearAllConfigs(): removeItem for every key that starts with the prefix
clearAllConfigs ==
  /\ localStorage' = [k \in {key \in DOMAIN localStorage : ~startsWith(key, STORAGE_PREFIX)} |->
                        localStorage[k]]
  /\ UNCHANGED <<serverVars, browserVars>>

\* ---------------------------------------------------------------- use-chat.ts
MAX_TOOLS_PER_REQUEST == 30

toolsForAI == [i \in 1..Len(aiTools) |-> [name |-> aiTools[i].name,
                                          serviceId |-> aiTools[i].serviceId]]

\* route.ts POST: Object.fromEntries(tools.map(tool => [tool.name, {...}])),
\* the tool map given to the model: a later entry of a name replaces an
\* earlier one
fromEntries(entries) ==
  [name \in {entries[i].name : i \in DOMAIN entries} |->
     entries[CHOOSE i \in DOMAIN entries :
               /\ entries[i].name = name
               /\ \A j \in DOMAIN entries : entries[j].name = name => j <= i]]

\* kind: "warned" (the toast, nothing sent) or "sent" with body.tools = sent;
\* enabled: the length of the published manifest the handler saw
Submit(kind, via, sent) ==
  [kind |-> kind, via |-> via, tools |-> sent, enabled |-> Len(aiTools)]

\* a submit handler that sends the first MAX_TOOLS_PER_REQUEST tools
handleSubmit_truncating(via) ==
  /\ submits' =
       Append(submits,
         Submit("sent", via,
                SubSeq(toolsForAI, 1,
                       IF Len(toolsForAI) > MAX_TOOLS_PER_REQUEST
                       THEN MAX_TOOLS_PER_REQUEST ELSE Len(toolsForAI))))
  /\ messages' = Append(messages, "user")
  /\ UNCHANGED <<storeVars, serverVars, registryVars, serviceConfigs, toolCalls,
                 gateVars, busVars, convertVars>>

\* handleSubmit: the warning toast and no request, or chat.handleSubmit(e),
\* which appends the user's message and sends it with body.tools = toolsForAI
handleSubmit(via) ==
  /\ submits' =
       Append(submits,
         IF Len(toolsForAI) > MAX_TOOLS_PER_REQUEST
         THEN Submit("warned", via, << >>)
         ELSE Submit("sent", via, toolsForAI))
  /\ messages' = IF Len(toolsForAI) > MAX_TOOLS_PER_REQUEST
                 THEN messages ELSE Append(messages, "user")
  /\ UNCHANGED <<storeVars, serverVars, registryVars, serviceConfigs, toolCalls,
                 gateVars, busVars, convertVars>>

\* sendMessage(content): chat.setInput(content); handleSubmit(fakeEvent)
sendMessage == handleSubmit("sendMessage")

\* clearConversation: chat.setMessages([]); a new conversation begins
clearConversation ==
  /\ messages' = << >>
  /\ conversationDecided' = {}
  /\ UNCHANGED <<pendingRequests, approvedTools, deniedTools, sessionPermissions,
                 promises, sessionApproved, sessionDenied>>
  /\ UNCHANGED <<storeVars, serverVars, registryVars, serviceConfigs, toolCalls,
                 submits, busVars, convertVars>>

ToolCallIds == 1..Len(toolCalls)

NoTool == [undefined |-> TRUE]

\* an onToolCall invocation: tool and config are what it looked up, made:
\* callMCPToolWithConfig created a client, connects: the transport
\* connections that client attempted, ops: the call_tool requests it
\* issued, isError: result.isError of a successful callMCPToolWithConfig,
\* ret what onToolCall returned
ToolCall(toolName, pc, tool, config, ret) ==
  [toolName |-> toolName, pc |-> pc, tool |-> tool, config |-> config,
   made |-> FALSE, connects |-> 0, ops |-> 0,
   executed |-> "none", isError |-> FALSE, summarized |-> "none", ret |-> ret]

\* aiTools.find(t => t.name === toolCall.toolName)
find(toolName) ==
  LET found == SelectSeq(aiTools, LAMBDA t : t.name = toolName)
  IN IF found = << >> THEN NoTool ELSE Head(found)

\* onToolCall without the serviceConfig lookup check
onToolCall_unchecked(toolName) ==
  /\ toolCalls' =
       Append(toolCalls,
         IF find(toolName) = NoTool
         THEN ToolCall(toolName, "done", NoTool, NoConfig, "error: Tool not found")
         ELSE ToolCall(toolName, "executing", find(toolName),
                       IF find(toolName).serviceId \in DOMAIN serviceConfigs
                       THEN serviceConfigs[find(toolName).serviceId] ELSE NoConfig,
                       "none"))
  /\ UNCHANGED <<storeVars, serverVars, registryVars, serviceConfigs, submits, messages,
                 gateVars, busVars, convertVars>>

\* onToolCall({toolCall}) up to its first await or return
onToolCall(toolName) ==
  /\ toolCalls' =
       Append(toolCalls,
         IF find(toolName) = NoTool
         THEN ToolCall(toolName, "done", NoTool, NoConfig, "error: Tool not found")
         ELSE IF find(toolName).serviceId \notin DOMAIN serviceConfigs
         THEN ToolCall(toolName, "done", find(toolName), NoConfig,
                       "error: Service configuration not found")
         ELSE ToolCall(toolName, "executing", find(toolName),
                       serviceConfigs[find(toolName).serviceId], "none"))
  /\ UNCHANGED <<storeVars, serverVars, registryVars, serviceConfigs, submits, messages,
                 gateVars, busVars, convertVars>>

\* what the remote answers to call_tool: isError true, false or absent
CallToolResponses == {[isError |-> TRUE], [isError |-> FALSE], EmptyObject}

\* MCPServerClient.callTool: typeof response.isError === 'boolean' ?
\* response.isError : false
callTool(response) ==
  [isError |-> IF "isError" \in DOMAIN response THEN response.isError ELSE FALSE]

\* the message of the error callMCPToolWithConfig caught: connect() threw
\* (no call_tool request was issued) or callTool() threw
errorMessage(client) ==
  IF client.ops = 0 THEN "MCP connection failed" ELSE "Failed to call tool"

\* await callMCPToolWithConfig(...) resumes; response is the remote's answer
\* when the call_tool request returned
toolCallExecuted(t, out, response) ==
  /\ toolCalls[t].pc = "executing"
  /\ toolCalls' =
       [toolCalls EXCEPT ![t] =
          [@ EXCEPT !.made = out.made,
                    !.connects = out.client.connects,
                    !.ops = out.client.ops,
                    !.executed = out.result,
                    !.isError = out.result = "ok" /\ callTool(response).isError,
                    !.pc = IF out.result = "ok" THEN "summarizing" ELSE "done",
                    !.ret = IF out.result = "ok" THEN "none"
                            ELSE IF out.result = "fail"
                            THEN "error: " \o errorMessage(out.client)
                            ELSE "error: error.message"]]
  /\ UNCHANGED <<storeVars, serverVars, registryVars, serviceConfigs, submits, messages,
                 gateVars, busVars, convertVars>>

\* what `await summarizeToolResult(...)` gives: a summary, an empty summary
\* (result.text.trim() === ''), success: false (anything thrown inside
\* summarizeToolResult is caught there), or a rejection of the call itself
SummaryResults == {"summary", "empty", "failed", "rejected"}

\* await summarizeToolResult(...) resumes
toolCallSummarized(t, summaryResult) ==
  /\ toolCalls[t].pc = "summarizing"
  /\ toolCalls' =
       [toolCalls EXCEPT ![t] =
          [@ EXCEPT !.pc = "done",
                    !.summarized = summaryResult,
                    !.ret = IF summaryResult = "summary" THEN "result, summary, rawResult"
                            ELSE IF summaryResult = "rejected" THEN "error: error.message"
                            ELSE "result"]]
  /\ UNCHANGED <<storeVars, serverVars, registryVars, serviceConfigs, submits, messages,
                 gateVars, busVars, convertVars>>

\* ------------------------------------------------------ tool-permissions.ts
GateToolNames == {"delete_repo", "get_file"}

determineRiskLevel(name) ==
  IF \/ includes(name, "delete") \/ includes(name, "remove")
     \/ includes(name, "destroy") \/ includes(name, "create")
     \/ includes(name, "update") \/ includes(name, "modify")
  THEN "high"
  ELSE IF \/ includes(name, "write") \/ includes(name, "send")
          \/ includes(name, "execute") \/ includes(name, "run")
          \/ includes(name, "upload")
  THEN "medium"
  ELSE "low"

PromiseIds == 1..Len(promises)

\* the promise requestPermission returns for toolCall {id, name}; prompted:
\* a request was added to pendingRequests for it; approvedBefore: the user
\* had approved (deniedBefore: denied) a request for this name earlier in
\* the session; decidedBefore: the user had answered a request for this
\* name earlier in the conversation; auto: the name had a standing
\* setAutoApprove decision
Promise(id, name, outcome, prompted) ==
  [id |-> id, name |-> name, outcome |-> outcome, prompted |-> prompted,
   approvedBefore |-> name \in sessionApproved,
   deniedBefore |-> name \in sessionDenied,
   decidedBefore |-> name \in conversationDecided,
   auto |-> name \in approvedTools \cup deniedTools]

ToolPermissionRequest(id, name) ==
  [id |-> id, name |-> name, riskLevel |-> determineRiskLevel(name)]

\* the promise of toolCall id settles; a settled promise stays as it is
resolve(id, value) ==
  [q \in PromiseIds |->
     IF promises[q].id = id /\ promises[q].outcome = "pending"
     THEN [promises[q] EXCEPT !.outcome = value]
     ELSE promises[q]]

\* new Map(prev.sessionPermissions).set(name, value)
set(map, name, value) == [k \in DOMAIN map \cup {name} |-> IF k = name THEN value ELSE map[k]]

\* a requestPermission that consults the auto lists before the session cache
requestPermission_autoFirst(name) ==
  LET id == Len(promises) + 1
  IN /\ IF name \in approvedTools
        THEN /\ sessionPermissions' = set(sessionPermissions, name, TRUE)
             /\ promises' = Append(promises, Promise(id, name, "true", FALSE))
             /\ UNCHANGED pendingRequests
        ELSE IF name \in deniedTools
        THEN /\ sessionPermissions' = set(sessionPermissions, name, FALSE)
             /\ promises' = Append(promises, Promise(id, name, "false", FALSE))
             /\ UNCHANGED pendingRequests
        ELSE IF name \in DOMAIN sessionPermissions
        THEN /\ promises' = Append(promises,
                   Promise(id, name, IF sessionPermissions[name] THEN "true" ELSE "false", FALSE))
             /\ UNCHANGED <<pendingRequests, sessionPermissions>>
        ELSE /\ pendingRequests' = Append(pendingRequests, ToolPermissionRequest(id, name))
             /\ promises' = Append(promises, Promise(id, name, "pending", TRUE))
             /\ UNCHANGED sessionPermissions
     /\ UNCHANGED <<approvedTools, deniedTools, sessionApproved, sessionDenied,
                    conversationDecided>>
     /\ UNCHANGED <<storeVars, serverVars, registryVars, chatVars, busVars, convertVars>>

requestPermission(name) ==
  LET id == Len(promises) + 1
  IN /\ IF name \in DOMAIN sessionPermissions
        THEN /\ promises' = Append(promises,
                   Promise(id, name, IF sessionPermissions[name] THEN "true" ELSE "false", FALSE))
             /\ UNCHANGED <<pendingRequests, sessionPermissions>>
        ELSE IF name \in approvedTools
        THEN /\ sessionPermissions' = set(sessionPermissions, name, TRUE)
             /\ promises' = Append(promises, Promise(id, name, "true", FALSE))
             /\ UNCHANGED pendingRequests
        ELSE IF name \in deniedTools
        THEN /\ sessionPermissions' = set(sessionPermissions, name, FALSE)
             /\ promises' = Append(promises, Promise(id, name, "false", FALSE))
             /\ UNCHANGED pendingRequests
        ELSE /\ pendingRequests' = Append(pendingRequests, ToolPermissionRequest(id, name))
             /\ promises' = Append(promises, Promise(id, name, "pending", TRUE))
             /\ UNCHANGED sessionPermissions
     /\ UNCHANGED <<approvedTools, deniedTools, sessionApproved, sessionDenied,
                    conversationDecided>>
     /\ UNCHANGED <<storeVars, serverVars, registryVars, chatVars, busVars, convertVars>>

\* an onApprove that also remembers the approval beyond the session
onApprove_remembering(i) ==
  /\ i \in DOMAIN pendingRequests
  /\ pendingRequests' = SelectSeq(pendingRequests, LAMBDA r : r.id # pendingRequests[i].id)
  /\ sessionPermissions' = set(sessionPermissions, pendingRequests[i].name, TRUE)
  /\ promises' = resolve(pendingRequests[i].id, "true")
  /\ sessionApproved' = sessionApproved \cup {pendingRequests[i].name}
  /\ conversationDecided' = conversationDecided \cup {pendingRequests[i].name}
  /\ approvedTools' = approvedTools \cup {pendingRequests[i].name}
  /\ UNCHANGED <<deniedTools, sessionDenied>>
  /\ UNCHANGED <<storeVars, serverVars, registryVars, chatVars, busVars, convertVars>>

\* the user answers the i-th pending request
onApprove(i) ==
  /\ i \in DOMAIN pendingRequests
  /\ pendingRequests' = SelectSeq(pendingRequests, LAMBDA r : r.id # pendingRequests[i].id)
  /\ sessionPermissions' = set(sessionPermissions, pendingRequests[i].name, TRUE)
  /\ promises' = resolve(pendingRequests[i].id, "true")
  /\ sessionApproved' = sessionApproved \cup {pendingRequests[i].name}
  /\ conversationDecided' = conversationDecided \cup {pendingRequests[i].name}
  /\ UNCHANGED <<approvedTools, deniedTools, sessionDenied>>
  /\ UNCHANGED <<storeVars, serverVars, registryVars, chatVars, busVars, convertVars>>

onDeny(i) ==
  /\ i \in DOMAIN pendingRequests
  /\ pendingRequests' = SelectSeq(pendingRequests, LAMBDA r : r.id # pendingRequests[i].id)
  /\ sessionPermissions' = set(sessionPermissions, pendingRequests[i].name, FALSE)
  /\ promises' = resolve(pendingRequests[i].id, "false")
  /\ sessionDenied' = sessionDenied \cup {pendingRequests[i].name}
  /\ conversationDecided' = conversationDecided \cup {pendingRequests[i].name}
  /\ UNCHANGED <<approvedTools, deniedTools, sessionApproved>>
  /\ UNCHANGED <<storeVars, serverVars, registryVars, chatVars, busVars, convertVars>>

setAutoApprove(toolName, approved) ==
  /\ approvedTools' = IF approved THEN approvedTools \cup {toolName}
                      ELSE approvedTools \ {toolName}
  /\ deniedTools' = IF approved THEN deniedTools \ {toolName}
                    ELSE deniedTools \cup {toolName}
  /\ UNCHANGED <<pendingRequests, sessionPermissions, promises, sessionApproved,
                 sessionDenied, conversationDecided>>
  /\ UNCHANGED <<storeVars, serverVars, registryVars, chatVars, busVars, convertVars>>

\* the session's decisions are forgotten: a new session begins
clearSessionPermissions ==
  /\ sessionPermissions' = EmptyObject
  /\ pendingRequests' = << >>
  /\ sessionApproved' = {}
  /\ sessionDenied' = {}
  /\ UNCHANGED <<approvedTools, deniedTools, promises, conversationDecided>>
  /\ UNCHANGED <<storeVars, serverVars, registryVars, chatVars, busVars, convertVars>>

\* ------------------------------------- tool-registry.ts: convertToAISDKTool
Upper == "ABCDEFGHIJKLMNOPQRSTUVWXYZ"
Lower == "abcdefghijklmnopqrstuvwxyz"

\* s with every letter of alphabet `from` replaced by the letter of `to` at
\* the same place, every other character kept
RECURSIVE recase(_, _, _)
recase(s, from, to) ==
  IF Len(s) = 0 THEN s
  ELSE LET c == SubSeq(s, 1, 1)
           at == {i \in 1..Len(from) : SubSeq(from, i, i) = c}
       IN (IF at = {} THEN c ELSE LET i == CHOOSE i \in at : TRUE IN SubSeq(to, i, i))
          \o recase(SubSeq(s, 2, Len(s)), from, to)

toLowerCase(s) == recase(s, Upper, Lower)
toUpperCase(s) == recase(s, Lower, Upper)

determineToolRiskLevel_caseSensitive(toolName) ==
  LET name == toolName
  IN IF \/ includes(name, "delete") \/ includes(name, "remove")
        \/ includes(name, "destroy") \/ includes(name, "create")
        \/ includes(name, "update") \/ includes(name, "modify")
        \/ includes(name, "merge") \/ includes(name, "close")
        \/ includes(name, "approve")
     THEN "high"
     ELSE IF \/ includes(name, "write") \/ includes(name, "send")
             \/ includes(name, "execute") \/ includes(name, "run")
             \/ includes(name, "upload") \/ includes(name, "post")
             \/ includes(name, "put") \/ includes(name, "patch")
             \/ includes(name, "comment") \/ includes(name, "assign")
     THEN "medium"
     ELSE "low"

determineToolRiskLevel(toolName) ==
  LET name == toLowerCase(toolName)
  IN IF \/ includes(name, "delete") \/ includes(name, "remove")
        \/ includes(name, "destroy") \/ includes(name, "create")
        \/ includes(name, "update") \/ includes(name, "modify")
        \/ includes(name, "merge") \/ includes(name, "close")
        \/ includes(name, "approve")
     THEN "high"
     ELSE IF \/ includes(name, "write") \/ includes(name, "send")
             \/ includes(name, "execute") \/ includes(name, "run")
             \/ includes(name, "upload") \/ includes(name, "post")
             \/ includes(name, "put") \/ includes(name, "patch")
             \/ includes(name, "comment") \/ includes(name, "assign")
     THEN "medium"
     ELSE "low"

\* zod schemas: a field schema is its kind and whether it is .optional();
\* z.object(shape) is the shape, key -> field schema
zType(kind) == [kind |-> kind, optional |-> FALSE]
optional(zodType) == [zodType EXCEPT !.optional = TRUE]
unwrap(zodType) == [zodType EXCEPT !.optional = FALSE]
zObject(shape) == [kind |-> "object", shape |-> shape]

\* the type a property of an input schema declares, "undefined" when absent
typeOf(prop) == prop.type

convertToZodSchema(inputSchema) ==
  IF inputSchema = NoItem \/ inputSchema.type # "object"
  THEN zObject(EmptyObject)
  ELSE LET properties == inputSchema.properties
           required == inputSchema.required
       IN zObject([key \in DOMAIN properties |->
            LET zodType ==
                  CASE typeOf(properties[key]) = "string" -> zType("string")
                    [] typeOf(properties[key]) = "number" -> zType("number")
                    [] typeOf(properties[key]) = "boolean" -> zType("boolean")
                    [] typeOf(properties[key]) = "array" -> zType("array")
                    [] OTHER -> zType("unknown")
            IN IF key \notin required THEN optional(zodType) ELSE zodType])

convertToJsonSchema_knownTypesOnly(inputSchema) ==
  IF inputSchema = NoItem \/ inputSchema.type # "object"
  THEN [type |-> "object", properties |-> EmptyObject, required |-> {}]
  ELSE LET properties == inputSchema.properties
           required == inputSchema.required
           known == {key \in DOMAIN properties :
                       typeOf(properties[key]) \in {"string", "number", "boolean", "array"}}
       IN [type |-> "object",
           properties |-> [key \in known |-> [type |-> typeOf(properties[key])]],
           required |-> required]

convertToJsonSchema(inputSchema) ==
  IF inputSchema = NoItem \/ inputSchema.type # "object"
  THEN [type |-> "object", properties |-> EmptyObject, required |-> {}]
  ELSE LET properties == inputSchema.properties
           required == inputSchema.required
       IN [type |-> "object",
           properties |-> [key \in DOMAIN properties |->
             CASE typeOf(properties[key]) = "string" -> [type |-> "string"]
               [] typeOf(properties[key]) = "number" -> [type |-> "number"]
               [] typeOf(properties[key]) = "boolean" -> [type |-> "boolean"]
               [] typeOf(properties[key]) = "array" ->
                    [type |-> "array", items |-> [type |-> "string"]]
               [] OTHER -> [type |-> "string"]],
           required |-> required]

\* route.ts: the schema the chat route rebuilds from the tool's `parameters`
jsonSchemaToZod(jsonSchema) ==
  IF jsonSchema = NoItem THEN zObject(EmptyObject)
  ELSE IF jsonSchema.type = "object"
  THEN LET shape == [key \in DOMAIN jsonSchema.properties |->
                       LET prop == jsonSchema.properties[key]
                       IN CASE prop.type = "string" -> optional(zType("string"))
                            [] prop.type = "number" -> optional(zType("number"))
                            [] prop.type = "boolean" -> optional(zType("boolean"))
                            [] prop.type = "array" -> optional(zType("array"))
                            [] OTHER -> optional(zType("any"))]
           requiredShape == [key \in DOMAIN shape |->
                               IF key \in jsonSchema.required
                               THEN unwrap(shape[key]) ELSE shape[key]]
       IN zObject(requiredShape)
  ELSE zObject(EmptyObject)

\* zodSchema.safeParse(args).success for an argument object args, key -> the
\* kind of value it holds: every key of the shape is checked, a key of args
\* the shape does not name is dropped; an absent key is the value undefined,
\* which .optional(), z.unknown() and z.any() accept
safeParse(zodSchema, args) ==
  \A key \in DOMAIN zodSchema.shape :
    LET field == zodSchema.shape[key]
    IN IF key \in DOMAIN args
       THEN field.kind \in {"unknown", "any"} \/ field.kind = args[key]
       ELSE field.optional \/ field.kind \in {"unknown", "any"}

\* what convertToAISDKTool returns, schemas and risk level included
AISDKTool(mcpTool) ==
  [name |-> mcpTool.name,
   serviceId |-> mcpTool.serviceId,
   parameters |-> convertToZodSchema(mcpTool.inputSchema),
   jsonSchema |-> convertToJsonSchema(mcpTool.inputSchema),
   riskLevel |-> determineToolRiskLevel(mcpTool.name)]

\* convertToAISDKTool(toolDefinition) is evaluated
convertTool ==
  /\ toolDefinition # NoItem
  /\ aiTool = NoItem
  /\ aiTool' = AISDKTool(toolDefinition)
  /\ UNCHANGED <<toolDefinition, parsed>>
  /\ UNCHANGED <<storeVars, serverVars, registryVars, chatVars, gateVars, busVars>>

\* an argument object is validated against the tool's schema in the browser
\* (aiTool.parameters) and against the one the chat route rebuilds from
\* toolsForAI's parameters: tool.jsonSchema
validateArguments(args) ==
  /\ aiTool # NoItem
  /\ parsed' = [args |-> args,
                parameters |-> safeParse(aiTool.parameters, args),
                zodSchema |-> safeParse(jsonSchemaToZod(aiTool.jsonSchema), args)]
  /\ UNCHANGED <<toolDefinition, aiTool>>
  /\ UNCHANGED <<storeVars, serverVars, registryVars, chatVars, gateVars, busVars>>

\* --------------------------------------------------------- the server model
InitStore == localStorage = << >>

InitServer ==
  /\ clients = << >>
  /\ clientPool = [s \in PoolServiceIds |-> NoClient]
  /\ calls = << >>

\* the registry before its first refresh, the coordinator before any call
InitRegistry ==
  /\ tools = << >>
  /\ aiTools = << >>
  /\ refreshes = << >>
  /\ published = [run |-> 0, store |-> << >>]

InitCoordinator ==
  /\ toolCalls = << >>
  /\ submits = << >>
  /\ messages = << >>

InitBus == bus = Bus(0, getItem(localStorage, TOOL_SELECTION_KEY))

InitGate ==
  /\ pendingRequests = << >>
  /\ approvedTools = {}
  /\ deniedTools = {}
  /\ sessionPermissions = EmptyObject
  /\ promises = << >>
  /\ sessionApproved = {}
  /\ sessionDenied = {}
  /\ conversationDecided = {}

\* no tool definition has been handed to convertToAISDKTool on its own
InitConvert ==
  /\ toolDefinition = NoItem
  /\ aiTool = NoItem
  /\ parsed = NoItem

Init ==
  /\ InitStore /\ InitServer
  /\ InitRegistry /\ InitCoordinator /\ serviceConfigs = EmptyObject
  /\ InitGate
  /\ InitBus
  /\ InitConvert

ServerStep ==
  \/ \E c \in CallIds, ok \in BOOLEAN : statelessConnected(c, ok)
  \/ \E c \in CallIds, ok \in BOOLEAN : statelessOperated(c, ok)
  \/ \E c \in CallIds, closeOk \in BOOLEAN : statelessFinally(c, closeOk)
  \/ \E c \in CallIds, ok \in BOOLEAN : pooledOperated(c, ok)
  \/ \E c \in CallIds, closeOk \in BOOLEAN : connectToDisconnected(c, closeOk)
  \/ \E c \in CallIds, ok \in BOOLEAN : connectToConnected(c, ok)
  \/ \E c \in CallIds, ok \in BOOLEAN : connectToListed(c, ok)
  \/ \E c \in CallIds, closeOk \in BOOLEAN : disconnectFromDisconnected(c, closeOk)

Next ==
  \/ \E s \in PoolServiceIds, cfg \in Configs : saveServiceConfig(s, cfg)
  \/ \E s \in PoolServiceIds : removeServiceConfig(s)
  \/ \E cfg \in Configs : canStart /\ testMCPConnection(cfg, "actions")
  \/ \E cfg \in Configs : canStart /\ callMCPToolWithConfig(cfg, "actions")
  \/ \E cfg \in Configs : canStart /\ getMCPPromptWithConfig(cfg, "actions")
  \/ \E cfg \in Configs : canStart /\ readMCPResourceWithConfig(cfg, "actions")
  \/ \E s \in PoolServiceIds, cfg \in Configs \cup {NoConfig} : canStart /\ listMCPTools(s, cfg, "actions")
  \/ \E s \in PoolServiceIds, cfg \in Configs \cup {NoConfig} : canStart /\ listMCPPrompts(s, cfg, "actions")
  \/ \E s \in PoolServiceIds, cfg \in Configs \cup {NoConfig} : canStart /\ listMCPResources(s, cfg, "actions")
  \/ \E s \in PoolServiceIds : canStart /\ callMCPTool(s)
  \/ \E s \in PoolServiceIds : canStart /\ getMCPPrompt(s)
  \/ \E s \in PoolServiceIds : canStart /\ readMCPResource(s)
  \/ \E s \in PoolServiceIds, cfg \in Configs : canStart /\ connectToMCPServer(s, cfg, "hooks")
  \/ \E s \in PoolServiceIds : canStart /\ disconnectFromMCPServer(s, "hooks")
  \/ \E s \in PoolServiceIds : canStart /\ hooks_callMCPTool(s)
  \/ \E s \in PoolServiceIds : canStart /\ hooks_listMCPTools(s)
  \/ \E s \in PoolServiceIds : canStart /\ hooks_getMCPPrompt(s)
  \/ \E s \in PoolServiceIds : canStart /\ hooks_listMCPPrompts(s)
  \/ \E s \in PoolServiceIds : canStart /\ hooks_readMCPResource(s)
  \/ \E s \in PoolServiceIds : canStart /\ hooks_listMCPResources(s)
  \/ ServerStep

Spec == Init /\ [][Next]_vars

\* ----------------------------------------------------------- the chat model
\* refreshTools runs started over one behaviour, the one at mount included
MaxRefreshes == 2
\* onToolCall invocations over one behaviour
MaxToolCalls == 1
\* handleSubmit / sendMessage calls over one behaviour
MaxSubmits == 2

\* the services the settings page can connect and save (handleConnect saves
\* a config only after testMCPConnection succeeded with it)
Connectable == {<<"github", "http://a">>, <<"jira", "http://b">>}
\* the same with a server that lists BigToolCount tools
BigConnectable == {<<"github", "http://a">>, <<"jira", "http://big">>}
\* the tools the user toggles in Available Actions
Toggleable == {<<"github", "delete_repo">>, <<"github", "get_file">>}
\* the tool names the model proposes
ToolNames == {"get_file", "no_such_tool"}

\* what earlier visits of the settings page can have left in localStorage
InitialStores(connectable) ==
  {[k \in {getStorageKey(sv[1]) : sv \in saved} |->
      [url |-> (CHOOSE sv \in saved : getStorageKey(sv[1]) = k)[2]]] :
     saved \in {S \in SUBSET connectable : \A x, y \in S : x[1] = y[1] => x = y}}

\* the page has mounted: useChat has loaded serviceConfigs and
\* useToolRegistry has called refreshTools()
Mounted(stores) ==
  /\ localStorage \in stores
  /\ InitServer
  /\ InitGate
  /\ InitBus
  /\ InitConvert
  /\ InitCoordinator
  /\ serviceConfigs = loadAllServiceConfigs(localStorage)
  /\ \E order \in KeyOrders(localStorage) :
       LET run == forEachService(localStorage, NewRefresh(getServiceIds(order)))
       IN /\ refreshes = <<run>>
          /\ tools = << >>
          /\ aiTools = << >>
          /\ published = [run |-> IF run.pc = "done" THEN 1 ELSE 0, store |-> localStorage]

InitChat == Mounted(InitialStores(Connectable))

NextChat ==
  \/ \E sv \in Connectable : saveServiceConfig(sv[1], [url |-> sv[2]])
  \/ \E st \in Toggleable : Len(refreshes) < MaxRefreshes /\ toggleToolSelection(st[1], st[2])
  \/ \E r \in RefreshIds :
       \E result \in ListResults(refreshes[r].config) : refreshListed(r, result)
  \/ \E toolName \in ToolNames : Len(toolCalls) < MaxToolCalls /\ onToolCall(toolName)
  \/ \E t \in ToolCallIds :
       \E out \in ActionOutcomes(FALSE, FALSE, toolCalls[t].config) :
         \E response \in CallToolResponses : toolCallExecuted(t, out, response)
  \/ \E t \in ToolCallIds, summaryResult \in SummaryResults : toolCallSummarized(t, summaryResult)

SpecChat == InitChat /\ [][NextChat]_vars

\* --------------------------------------------------------- the submit model
InitSubmit == Mounted(InitialStores(BigConnectable))

NextSubmit ==
  \/ \E sv \in BigConnectable : saveServiceConfig(sv[1], [url |-> sv[2]])
  \/ \E st \in Toggleable : Len(refreshes) < MaxRefreshes /\ toggleToolSelection(st[1], st[2])
  \/ \E r \in RefreshIds :
       \E result \in ListResults(refreshes[r].config) : refreshListed(r, result)
  \/ Len(submits) < MaxSubmits /\ handleSubmit("handleSubmit")
  \/ Len(submits) < MaxSubmits /\ sendMessage

SpecSubmit == InitSubmit /\ [][NextSubmit]_vars

\* ------------------------------------------------------------ the bus model
\* the selections saveToolSelection is called with directly
SavedSelections == {EmptyObject, [k \in {"github:get_file", "jira:send_mail"} |-> FALSE]}

\* the store the page mounts with, and the config another context saves
BusStores == InitialStores({<<"github", "http://a">>}) \ {EmptyObject}
Reconnectable == {<<"github", "http://b">>}

InitBusChat == Mounted(BusStores)

NextBus ==
  \/ \E st \in Toggleable : Len(refreshes) < MaxRefreshes /\ toggleToolSelection(st[1], st[2])
  \/ \E st \in Toggleable, selected \in BOOLEAN :
       Len(refreshes) < MaxRefreshes /\ setToolSelection(st[1], st[2], selected)
  \/ \E toolSelections \in SavedSelections :
       Len(refreshes) < MaxRefreshes /\ saveToolSelection(toolSelections)
  \/ \E st \in Toggleable : Len(refreshes) < MaxRefreshes /\ otherContextToggle(st[1], st[2])
  \/ \E sv \in Reconnectable : otherContextSave(sv[1], [url |-> sv[2]])
  \/ clearAllConfigs
  \/ \E r \in RefreshIds :
       \E result \in ListResults(refreshes[r].config) : refreshListed(r, result)

SpecBus == InitBusChat /\ [][NextBus]_vars

\* every server action awaited by a refreshTools run settles
SpecBusFair ==
  /\ SpecBus
  /\ \A r \in 1..MaxRefreshes :
       WF_vars(r \in RefreshIds /\ \E result \in ListResults(refreshes[r].config) :
                                     refreshListed(r, result))

\* ----------------------------------------------------- the conversion model
\* words tool names are made of, and the tool names tried
NameWords ==
  {"delete", "remove", "destroy", "create", "update", "modify", "merge",
   "close", "approve", "write", "send", "execute", "run", "upload", "post",
   "put", "patch", "comment", "assign", "get", "list", "search"}

RiskNames ==
  {w \o "_item" : w \in NameWords} \cup
  {toUpperCase(w) \o "_item" : w \in NameWords} \cup
  {"x-" \o w : w \in NameWords} \cup
  {"delete_repo", "get-and-delete-cache", "Get-And-Delete-Cache",
   "send_and_delete", "SEND_AND_DELETE", "Write_Update", "getFile"}

\* input schemas: the top-level type is "object" or something else, each of
\* up to two properties declares one of the types the converters know, one
\* they do not ("object") or none, and required names any of the two
PropertyNames == {"path", "count"}
PropTypes == {"string", "number", "boolean", "array", "object", "undefined"}

PropertyMaps ==
  UNION {[S -> {[type |-> t] : t \in PropTypes}] : S \in SUBSET PropertyNames}

InputSchemas ==
  {NoItem} \cup
  {[type |-> t, properties |-> p, required |-> r] :
     t \in {"object", "undefined"}, p \in PropertyMaps, r \in SUBSET PropertyNames}

ToolDefinitions ==
  {[name |-> n, serviceId |-> "github", inputSchema |-> NoItem] : n \in RiskNames} \cup
  {[name |-> "get_file", serviceId |-> "github", inputSchema |-> s] : s \in InputSchemas}

\* argument objects: each property absent or holding a value of one kind
ValueKinds == {"string", "number", "boolean", "array", "object"}
ArgObjects == UNION {[S -> ValueKinds] : S \in SUBSET PropertyNames}

InitConversion ==
  /\ InitStore /\ InitServer
  /\ InitRegistry /\ InitCoordinator /\ serviceConfigs = EmptyObject
  /\ InitGate
  /\ InitBus
  /\ toolDefinition \in ToolDefinitions
  /\ aiTool = NoItem
  /\ parsed = NoItem

NextConversion ==
  \/ convertTool
  \/ \E args \in ArgObjects : validateArguments(args)

SpecConversion == InitConversion /\ [][NextConversion]_vars

\* ----------------------------------------------------------- the gate model
\* requestPermission calls over one behaviour
MaxRequests == 3

NextGate ==
  \/ \E name \in GateToolNames : Len(promises) < MaxRequests /\ requestPermission(name)
  \/ \E i \in DOMAIN pendingRequests : onApprove(i)
  \/ \E i \in DOMAIN pendingRequests : onDeny(i)
  \/ \E name \in GateToolNames, approved \in BOOLEAN : setAutoApprove(name, approved)
  \/ clearSessionPermissions
  \/ clearConversation

SpecGate == Init /\ [][NextGate]_vars

\* ===================================================================== C2
ClientIds == 1..Len(clients)

StatelessWithClient(c) == calls[c].kind = "stateless" /\ calls[c].client # NoClient

\* C2 as stated: every stateless operation that created a client has called
\* disconnect() by the time it returns, and the client is then never left
\* connected.
C2_NeverLeftConnected ==
  \A c \in CallIds :
    (StatelessWithClient(c) /\ calls[c].pc = "done") =>
      /\ clients[calls[c].client].disconnects >= 1
      /\ ~clients[calls[c].client].isConnected

\* C2 amended: a stateless operation connects, then issues at most one
\* operation (exactly one when the connect succeeded), then calls
\* disconnect() exactly once before it returns, on the success, the
\* connect-failure and the operation-failure path alike; its client is left
\* connected on return only when client.close() itself threw.
C2_StatelessLifecycle ==
  \A c \in CallIds :
    StatelessWithClient(c) =>
      LET cl == clients[calls[c].client]
      IN /\ cl.ops <= 1 /\ cl.connects <= 1
         /\ cl.ops = 1 => cl.everConnected
         /\ calls[c].pc = "connect" =>
              cl.connects = 0 /\ cl.ops = 0 /\ cl.disconnects = 0
         /\ calls[c].pc = "op" =>
              cl.isConnected /\ cl.ops = 0 /\ cl.disconnects = 0
         /\ calls[c].pc = "finally" => cl.disconnects = 0
         /\ calls[c].pc = "done" =>
              /\ cl.disconnects = 1
              /\ cl.everConnected => (cl.ops = 1 /\ cl.closes = 1)
              /\ cl.isConnected => cl.closeFailed
              /\ calls[c].result = "ok" => cl.ops = 1

\* a stateless operation whose operation threw after a successful connect
\* has returned, its client disconnected
C2_Witness ==
  \E c \in CallIds :
    /\ StatelessWithClient(c) /\ calls[c].pc = "done"
    /\ calls[c].result = "fail"
    /\ clients[calls[c].client].everConnected
    /\ clients[calls[c].client].disconnects = 1
    /\ ~clients[calls[c].client].isConnected

\* ===================================================================== C3
\* C3: every client serves at most one remote operation, and no connection
\* (short of a close() that threw) outlives the call that opened it.
C3_NoConnectionReuse ==
  \A k \in ClientIds :
    /\ clients[k].ops <= 1
    /\ (clients[k].isConnected /\ ~clients[k].closeFailed) =>
         calls[clients[k].call].pc # "done"

\* ==================================================================== C24
\* C24: under any interleaving of connectToMCPServer and
\* disconnectFromMCPServer calls, a client built by connectToMCPServer that
\* is connected (short of a close() that threw) is the client clientPool
\* holds for its serviceId.
C24_ConnectedClientIsPooled ==
  \A k \in ClientIds :
    (/\ calls[clients[k].call].kind = "connectTo"
     /\ clients[k].isConnected
     /\ ~clients[k].closeFailed)
      => clientPool[calls[clients[k].call].serviceId] = k

\* ===================================================================== C9
\* the call was made with a configuration error: no stored config for the
\* serviceId (wrapper), or a url that is empty, blank or not an absolute URL
ConfigurationError(c) ==
  \/ calls[c].via = "hooks" /\ calls[c].kind = "none"
  \/ calls[c].config # NoConfig /\ (urlIsBlank(calls[c].config) \/ urlIsInvalid(calls[c].config))

\* C9: an operation called with a configuration error returns
\* success = false, and no client built for it ever creates a transport or
\* invokes the transport's connect.
C9_ConfigErrorNeverReachesNetwork ==
  \A c \in CallIds :
    ConfigurationError(c) =>
      /\ calls[c].pc = "done" => calls[c].result = "fail"
      /\ \A k \in ClientIds :
           clients[k].call = c => (clients[k].connects = 0 /\ ~clients[k].transport)

\* callMCPToolWithConfig (which validates nothing itself) has returned for
\* a url that is not a URL, after building a client and calling connect()
C9_Witness ==
  \E c \in CallIds :
    /\ calls[c].kind = "stateless" /\ calls[c].pc = "done"
    /\ calls[c].config = [url |-> "not-a-url"]
    /\ calls[c].client # NoClient
    /\ clients[calls[c].client].disconnects = 1

\* ------------------------------------------------------ claims on the chat
SelectionAt(store) ==
  IF TOOL_SELECTION_KEY \in DOMAIN store THEN store[TOOL_SELECTION_KEY] ELSE EmptyObject

Deselected(store, t) ==
  /\ toolId(t.serviceId, t.name) \in DOMAIN SelectionAt(store)
  /\ SelectionAt(store)[toolId(t.serviceId, t.name)] = FALSE

InManifest(serviceId, name) ==
  \E j \in DOMAIN aiTools : aiTools[j].name = name /\ aiTools[j].serviceId = serviceId

\* C1: an onToolCall invocation makes its remote call only after
\* requestPermission has resolved true for that tool call. (No step of
\* onToolCall calls requestPermission, so under SpecChat no promise exists.)
C1_RemoteCallOnlyAfterPermission ==
  \A t \in ToolCallIds :
    toolCalls[t].made =>
      \E q \in PromiseIds : promises[q].id = t /\ promises[q].outcome = "true"

\* C5: once a refreshTools run has published, the manifest aiTools holds a
\* tool of state.tools (the tools the services' listTools returned) exactly
\* when its key "serviceId:toolName" is not false in the tool selection that
\* localStorage held at publication; an absent key counts as enabled.
C5_ManifestIffNotDeselected ==
  published.run # 0 =>
    /\ \A i \in DOMAIN tools :
         InManifest(tools[i].serviceId, tools[i].name) <=> ~Deselected(published.store, tools[i])
    /\ \A j \in DOMAIN aiTools :
         \E i \in DOMAIN tools :
           tools[i].name = aiTools[j].name /\ tools[i].serviceId = aiTools[j].serviceId

C5_Witness ==
  /\ published.run # 0
  /\ \E i, k \in DOMAIN tools :
       /\ Deselected(published.store, tools[i])
       /\ ~InManifest(tools[i].serviceId, tools[i].name)
       /\ toolId(tools[k].serviceId, tools[k].name) \notin DOMAIN SelectionAt(published.store)
       /\ InManifest(tools[k].serviceId, tools[k].name)

\* C7: when the remote tool call succeeded and the summarization step failed
\* (no summary text, success: false, or the call itself rejected), onToolCall
\* returns {result} with neither summary nor error.
C7_SummaryFailureKeepsResult ==
  \A t \in ToolCallIds :
    (toolCalls[t].executed = "ok" /\ toolCalls[t].summarized \in {"empty", "failed", "rejected"})
      => toolCalls[t].ret = "result"

\* the tool onToolCall finds for a name: the first of the manifest with it
FirstMatch(toolName) ==
  aiTools[CHOOSE i \in DOMAIN aiTools :
            /\ aiTools[i].name = toolName
            /\ \A j \in 1..(i - 1) : aiTools[j].name # toolName]

\* C8: an onToolCall for a name that is not in the current manifest, or
\* whose tool's serviceId has no entry in serviceConfigs, returns an {error}
\* result at once, and no client is created and no connection attempted for
\* it, then or later.
C8_LookupFailureIsErrorWithoutRemote ==
  /\ [][\A toolName \in ToolNames :
          (/\ Len(toolCalls') = Len(toolCalls) + 1
           /\ toolCalls'[Len(toolCalls')].toolName = toolName
           /\ \/ \A i \in DOMAIN aiTools : aiTools[i].name # toolName
              \/ /\ \E i \in DOMAIN aiTools : aiTools[i].name = toolName
                 /\ FirstMatch(toolName).serviceId \notin DOMAIN serviceConfigs)
          => /\ toolCalls'[Len(toolCalls')].pc = "done"
             /\ startsWith(toolCalls'[Len(toolCalls')].ret, "error")]_vars
  /\ [](\A t \in ToolCallIds :
          (toolCalls[t].pc = "done" /\ toolCalls[t].executed = "none")
            => /\ startsWith(toolCalls[t].ret, "error")
               /\ ~toolCalls[t].made
               /\ toolCalls[t].connects = 0)

C8_Witness ==
  \E t \in ToolCallIds :
    /\ toolCalls[t].pc = "done"
    /\ toolCalls[t].ret = "error: Service configuration not found"
    /\ InManifest(toolCalls[t].tool.serviceId, toolCalls[t].toolName)
    /\ ~toolCalls[t].made

\* C10: a refreshTools run that has left its loop has visited every
\* serviceId getServiceIds() gave it, in order, and attempted listMCPTools
\* for each one that had a config, whatever the earlier ones returned or
\* threw; and the manifest published by the run holds every enabled tool of
\* every service whose listMCPTools succeeded.
C10_ListFailureIsolated ==
  \A r \in RefreshIds :
    refreshes[r].pc = "done" =>
      /\ Len(refreshes[r].seen) = Len(refreshes[r].order)
      /\ \A k \in DOMAIN refreshes[r].seen :
           /\ refreshes[r].seen[k].serviceId = refreshes[r].order[k]
           /\ refreshes[r].seen[k].attempted \/ refreshes[r].seen[k].config = NoConfig
      /\ published.run = r =>
           \A k \in DOMAIN refreshes[r].seen :
             refreshes[r].seen[k].success =>
               \A n \in DOMAIN remoteTools(refreshes[r].seen[k].config["url"]) :
                 LET t == MCPToolDefinition(refreshes[r].seen[k].serviceId,
                            remoteTools(refreshes[r].seen[k].config["url"])[n])
                 IN ~Deselected(published.store, t) => InManifest(t.serviceId, t.name)

C10_Witness ==
  \E r \in RefreshIds :
    /\ refreshes[r].pc = "done"
    /\ published.run = r
    /\ \E k1, k2 \in DOMAIN refreshes[r].seen :
         /\ k1 < k2
         /\ refreshes[r].seen[k1].attempted /\ ~refreshes[r].seen[k1].success
         /\ hasUrl(refreshes[r].seen[k1].config)
         /\ refreshes[r].seen[k2].success
         /\ InManifest(refreshes[r].seen[k2].serviceId, "get_file")

\* C19: a protocol-level failure of call_tool (the remote rejected the
\* request, or its result has isError true) makes onToolCall return an
\* {error} result that differs from the one a connectivity failure gives,
\* never a {result}.
C19_ProtocolFailureIsError ==
  \A t \in ToolCallIds :
    (/\ toolCalls[t].pc = "done"
     /\ \/ toolCalls[t].executed = "fail" /\ toolCalls[t].ops > 0
        \/ toolCalls[t].executed = "ok" /\ toolCalls[t].isError)
      => /\ startsWith(toolCalls[t].ret, "error")
         /\ toolCalls[t].ret # "error: MCP connection failed"

\* C14: tool names are unique in every published manifest: no two entries
\* of the registry's aiTools, nor of the toolsForAI list built from it, have
\* the same name, also when two services expose a tool of one name.
C14_ManifestNamesUnique ==
  /\ \A i, j \in DOMAIN aiTools : aiTools[i].name = aiTools[j].name => i = j
  /\ \A i, j \in DOMAIN toolsForAI : toolsForAI[i].name = toolsForAI[j].name => i = j

\* C22: whatever the interleaving of refreshTools runs, the registry state
\* is the output of one run, the one that published last: tools is the
\* list that run collected, aiTools the selected part of that same list
\* (so every aiTools entry is a tools entry by serviceId and name), also
\* once every run has finished; before the first publication both are empty.
C22_PublishedFromOneRun ==
  /\ published.run = 0 => (tools = << >> /\ aiTools = << >>)
  /\ published.run # 0 =>
       LET run == refreshes[published.run]
       IN /\ run.pc = "done"
          /\ tools = run.allTools
          /\ aiTools = SelectSeq(tools, LAMBDA t : ~Deselected(published.store, t))
          /\ \A j \in DOMAIN aiTools : \E i \in DOMAIN tools :
               tools[i].serviceId = aiTools[j].serviceId /\ tools[i].name = aiTools[j].name

C22_Witness ==
  /\ Len(refreshes) = 2
  /\ \A r \in RefreshIds : refreshes[r].pc = "done"
  /\ published.run = 1
  /\ refreshes[1].allTools # refreshes[2].allTools
  /\ refreshes[1].allTools # << >>
  /\ tools = refreshes[1].allTools

\* C23: for every tool name of the manifest, the entry the chat route
\* advertises to the model under that name (its tool map built from
\* toolsForAI) is of the service onToolCall invokes for that name.
C23_AdvertisedIsInvoked ==
  \A name \in DOMAIN fromEntries(toolsForAI) :
    fromEntries(toolsForAI)[name].serviceId = find(name).serviceId

\* C25: getServiceIds() returns exactly the serviceIds that have a saved
\* ServiceConfig, whatever was saved, removed or selected before, and no
\* refreshTools run loads a config or attempts listMCPTools for the
\* tool-selection key.
C25_ServiceIdsAreSavedServices ==
  /\ \A order \in KeyOrders(localStorage) :
       {getServiceIds(order)[i] : i \in DOMAIN getServiceIds(order)} =
         {id \in ServiceIds : getStorageKey(id) \in DOMAIN localStorage}
  /\ \A r \in RefreshIds :
       /\ \A k \in DOMAIN refreshes[r].order :
            getStorageKey(refreshes[r].order[k]) # TOOL_SELECTION_KEY
       /\ \A k \in DOMAIN refreshes[r].seen :
            refreshes[r].seen[k].attempted =>
              getStorageKey(refreshes[r].seen[k].serviceId) # TOOL_SELECTION_KEY

\* C26: an onToolCall that arrives for a tool whose selection flag is false
\* in the store at that moment returns 'Tool not found' and makes no remote
\* call, also while the recompute started by the deselection is in flight.
C26_DeselectedToolNotInvoked ==
  [][\A toolName \in ToolNames :
       (/\ Len(toolCalls') = Len(toolCalls) + 1
        /\ toolCalls'[Len(toolCalls')].toolName = toolName
        /\ find(toolName) # NoTool
        /\ Deselected(localStorage, find(toolName)))
       => /\ toolCalls'[Len(toolCalls')].pc = "done"
          /\ toolCalls'[Len(toolCalls')].ret = "error: Tool not found"]_vars

\* C27: an onToolCall that arrives for a tool of the manifest whose
\* serviceId has a ServiceConfig in localStorage at that moment finds the
\* config and goes on to execute: it does not return 'Service configuration
\* not found'.
C27_SavedConfigIsFound ==
  [][\A toolName \in ToolNames :
       (/\ Len(toolCalls') = Len(toolCalls) + 1
        /\ toolCalls'[Len(toolCalls')].toolName = toolName
        /\ find(toolName) # NoTool
        /\ loadServiceConfig(find(toolName).serviceId) # NoConfig)
       => /\ toolCalls'[Len(toolCalls')].pc = "executing"
          /\ toolCalls'[Len(toolCalls')].config = loadServiceConfig(find(toolName).serviceId)]_vars

\* ---------------------------------------------------- claims on the submit
\* C6: every submit (handleSubmit or sendMessage) with more than
\* MAX_TOOLS_PER_REQUEST tools in the manifest sends nothing and raises the
\* warning; with that many or fewer it sends the request with every tool of
\* the manifest, in order, none dropped.
C6_SubmitRefusedOverLimit ==
  [][Len(submits') = Len(submits) + 1 =>
       LET submit == submits'[Len(submits')]
       IN IF Len(aiTools) > MAX_TOOLS_PER_REQUEST
          THEN submit.kind = "warned" /\ submit.tools = << >>
          ELSE /\ submit.kind = "sent"
               /\ Len(submit.tools) = Len(aiTools)
               /\ \A i \in DOMAIN aiTools :
                    /\ submit.tools[i].name = aiTools[i].name
                    /\ submit.tools[i].serviceId = aiTools[i].serviceId]_vars

C6_Witness ==
  \E i, j \in DOMAIN submits :
    /\ i < j
    /\ submits[i].kind = "warned" /\ submits[i].enabled = MAX_TOOLS_PER_REQUEST + 1
    /\ submits[j].kind = "sent" /\ Len(submits[j].tools) = MAX_TOOLS_PER_REQUEST
    /\ submits[i].via # submits[j].via

\* ------------------------------------------------------ claims on the gate
\* C4: a requestPermission for a tool name the user has approved earlier in
\* the session resolves true, and one for a name the user has denied
\* resolves false, in both cases without a new entry in pendingRequests.
C4_SessionCache ==
  \A q \in PromiseIds :
    /\ promises[q].approvedBefore => (promises[q].outcome = "true" /\ ~promises[q].prompted)
    /\ promises[q].deniedBefore => (promises[q].outcome = "false" /\ ~promises[q].prompted)

\* C13: a permission request is in pendingRequests exactly while the promise
\* requestPermission returned for it is unresolved; no request leaves
\* pendingRequests (clearSessionPermissions included) with its promise
\* still pending.
C13_PendingIffUnresolved ==
  \A q \in PromiseIds :
    promises[q].prompted =>
      (promises[q].outcome = "pending"
         <=> \E i \in DOMAIN pendingRequests : pendingRequests[i].id = promises[q].id)

\* C20: the conversation reset clears the session permission cache: a
\* requestPermission for a tool name the user has not decided on since the
\* last clearConversation, and that has no standing auto decision, is put
\* to the user again.
C20_ResetForgetsDecisions ==
  \A q \in PromiseIds :
    (~promises[q].decidedBefore /\ ~promises[q].auto) => promises[q].prompted

\* C21: a step in which the user approves or denies a pending request
\* leaves approvedTools and deniedTools (and everything outside the gate)
\* unchanged; so does clearSessionPermissions; and a step that changes
\* approvedTools or deniedTools is a setAutoApprove step.
C21_DecisionsLeaveAutoSets ==
  /\ [][(\E i \in DOMAIN pendingRequests : onApprove(i) \/ onDeny(i))
          => UNCHANGED <<approvedTools, deniedTools, storeVars, registryVars, chatVars>>]_vars
  /\ [][(sessionPermissions' = EmptyObject /\ sessionPermissions # EmptyObject)
          => UNCHANGED <<approvedTools, deniedTools>>]_vars
  /\ [][(approvedTools' # approvedTools \/ deniedTools' # deniedTools)
          => \E name \in GateToolNames, approved \in BOOLEAN : setAutoApprove(name, approved)]_vars

C21_Witness ==
  /\ approvedTools = {"get_file"}
  /\ deniedTools = {}
  /\ "delete_repo" \in sessionApproved
  /\ "delete_repo" \in DOMAIN sessionPermissions
  /\ sessionPermissions["delete_repo"]
  /\ pendingRequests = << >>

\* C29: a requestPermission for a name with a session decision resolves
\* with that decision, whatever the auto lists hold, and leaves the cache as
\* it is; otherwise a name of the auto-approve set resolves true, otherwise
\* a name of the auto-deny set resolves false, in both cases with the value
\* written into the session cache; otherwise the request is put to the user.
\* setAutoApprove never changes the session cache.
C29_SessionThenAutoLists ==
  /\ [][Len(promises') = Len(promises) + 1 =>
          LET p == promises'[Len(promises')]
              cached == p.name \in DOMAIN sessionPermissions
          IN IF cached
             THEN /\ p.outcome = IF sessionPermissions[p.name] THEN "true" ELSE "false"
                  /\ ~p.prompted
                  /\ UNCHANGED <<sessionPermissions, pendingRequests>>
             ELSE IF p.name \in approvedTools
             THEN /\ p.outcome = "true" /\ ~p.prompted
                  /\ sessionPermissions' = set(sessionPermissions, p.name, TRUE)
             ELSE IF p.name \in deniedTools
             THEN /\ p.outcome = "false" /\ ~p.prompted
                  /\ sessionPermissions' = set(sessionPermissions, p.name, FALSE)
             ELSE /\ p.outcome = "pending" /\ p.prompted
                  /\ UNCHANGED sessionPermissions]_vars
  /\ [][(approvedTools' # approvedTools \/ deniedTools' # deniedTools)
          => UNCHANGED sessionPermissions]_vars

C29_Witness ==
  \E q \in PromiseIds :
    /\ promises[q].deniedBefore
    /\ promises[q].auto
    /\ promises[q].name \in approvedTools
    /\ promises[q].outcome = "false"
    /\ ~promises[q].prompted
    /\ promises[q].name \in DOMAIN sessionPermissions
    /\ ~sessionPermissions[promises[q].name]

\* C30: no request is pending for a name that has a decision in the session
\* cache, and at most one request per name is pending at a time.
C30_OnePromptPerName ==
  /\ \A i \in DOMAIN pendingRequests :
        pendingRequests[i].name \notin DOMAIN sessionPermissions
  /\ \A i, j \in DOMAIN pendingRequests :
        pendingRequests[i].name = pendingRequests[j].name => i = j

\* ------------------------------------------------------- claims on the bus
StoredSelection == getItem(localStorage, TOOL_SELECTION_KEY)

\* the published manifest was computed from, and agrees with, the selection
\* that is stored now
ManifestReflectsSelection ==
  /\ published.run # 0
  /\ getItem(published.store, TOOL_SELECTION_KEY) = StoredSelection
  /\ \A i \in DOMAIN tools :
       InManifest(tools[i].serviceId, tools[i].name) <=> ~Deselected(localStorage, tools[i])

\* C11: every selection-change notification (the same-context
\* 'localStorageChange' dispatched by saveToolSelection, on its own or under
\* toggleToolSelection / setToolSelection, and the 'storage' event of another
\* context) makes useChat start a refreshTools run in the same step; and
\* while the stored selection is the one last notified, the manifest
\* eventually reflects it.
C11_SelectionChangeRecomputes ==
  /\ [][bus'.events = bus.events + 1 => Len(refreshes') = Len(refreshes) + 1]_vars
  /\ (bus.value = StoredSelection) ~>
       (ManifestReflectsSelection \/ bus.value # StoredSelection)

C11_Witness ==
  /\ bus.events > 0
  /\ bus.value = StoredSelection
  /\ published.run = Len(refreshes)
  /\ ManifestReflectsSelection
  /\ \E i \in DOMAIN tools : Deselected(localStorage, tools[i])

\* C12: the stored tool-selection value is always the one the latest
\* selection-change notification carried (the value found at mount when
\* there has been none): it never changes without a notification.
C12_EverySelectionWriteNotified == bus.value = StoredSelection

\* ----------------------------------------------- claims on the conversion
Converted == aiTool # NoItem

HighWords ==
  {"delete", "remove", "destroy", "create", "update", "modify", "merge",
   "close", "approve"}
MediumWords ==
  {"write", "send", "execute", "run", "upload", "post", "put", "patch",
   "comment", "assign"}

ContainsAny(name, words) == \E w \in words : includes(name, w)

\* C15: the risk level of a converted tool is high when its lower-cased name
\* contains a high word; otherwise medium when it contains a medium word;
\* otherwise low. A name with a high and a medium word is high (delete_repo
\* and get-and-delete-cache are high), and the level is the same for the
\* name spelled in upper case and in lower case.
C15_RiskClassifier ==
  Converted =>
    LET toolName == toolDefinition.name
        name == toLowerCase(toolName)
    IN /\ aiTool.riskLevel =
            IF ContainsAny(name, HighWords) THEN "high"
            ELSE IF ContainsAny(name, MediumWords) THEN "medium"
            ELSE "low"
       /\ toolName \in {"delete_repo", "get-and-delete-cache"} => aiTool.riskLevel = "high"
       /\ determineToolRiskLevel(toUpperCase(toolName)) = aiTool.riskLevel
       /\ determineToolRiskLevel(name) = aiTool.riskLevel

C15_Witness ==
  /\ Converted
  /\ toolDefinition.name = "SEND_AND_DELETE"
  /\ ContainsAny(toLowerCase(toolDefinition.name), MediumWords)
  /\ aiTool.riskLevel = "high"

\* the properties and the required names a tool definition declares
DeclaredProperties ==
  IF toolDefinition.inputSchema = NoItem THEN EmptyObject
  ELSE toolDefinition.inputSchema.properties
DeclaredRequired ==
  IF toolDefinition.inputSchema = NoItem THEN {}
  ELSE toolDefinition.inputSchema.required

KnownTypes == {"string", "number", "boolean", "array"}

\* a value of kind v is a correctly typed value of a property declared prop
CorrectlyTyped(prop, v) == prop.type = "undefined" \/ prop.type = v

\* C16: both validation schemas accept an argument object that holds every
\* required name, each declared property it holds being correctly typed;
\* both reject an argument object that lacks a required name; and a
\* property is mandatory in them exactly when the descriptor requires it.
C16_ValidationFollowsRequired ==
  (Converted /\ parsed # NoItem) =>
    LET complete == DeclaredRequired \subseteq DOMAIN parsed.args
        typed == \A key \in DOMAIN parsed.args \cap DOMAIN DeclaredProperties :
                   CorrectlyTyped(DeclaredProperties[key], parsed.args[key])
        rebuilt == jsonSchemaToZod(aiTool.jsonSchema)
    IN /\ (complete /\ typed) => (parsed.parameters /\ parsed.zodSchema)
       /\ ~complete => (~parsed.parameters /\ ~parsed.zodSchema)
       /\ \A key \in DOMAIN DeclaredProperties :
            /\ key \in DOMAIN aiTool.parameters.shape
            /\ key \in DOMAIN rebuilt.shape
            /\ ~aiTool.parameters.shape[key].optional <=> key \in DeclaredRequired
            /\ ~rebuilt.shape[key].optional <=> key \in DeclaredRequired

\* C17: in the validation schemas and in the model-facing schema a property
\* declared string, number, boolean or array keeps that type, and a
\* property of any other or of no declared type is left unconstrained: the
\* model-facing schema gives it no type and the validation schemas accept
\* any value for it.
C17_TypesKeptOrUnconstrained ==
  (Converted /\ toolDefinition.inputSchema # NoItem
             /\ toolDefinition.inputSchema.type = "object") =>
    LET rebuilt == jsonSchemaToZod(aiTool.jsonSchema)
    IN \A key \in DOMAIN DeclaredProperties :
         LET t == DeclaredProperties[key].type
         IN IF t \in KnownTypes
            THEN /\ aiTool.parameters.shape[key].kind = t
                 /\ aiTool.jsonSchema.properties[key].type = t
                 /\ rebuilt.shape[key].kind = t
            ELSE /\ aiTool.parameters.shape[key].kind \in {"unknown", "any"}
                 /\ "type" \notin DOMAIN aiTool.jsonSchema.properties[key]
                 /\ rebuilt.shape[key].kind \in {"unknown", "any"}

\* C18 as stated: for every tool definition the model-facing schema has the
\* required set of the definition and exactly the property names of the
\* definition's properties.
C18_RoundTripEveryDescriptor ==
  Converted =>
    /\ aiTool.jsonSchema.required = DeclaredRequired
    /\ DOMAIN aiTool.jsonSchema.properties = DOMAIN DeclaredProperties

\* C18 (amended): for a tool definition whose input schema is present with
\* top-level type "object" the model-facing schema has the same required set
\* and exactly the same property names; for any other tool definition it is
\* the empty object schema.
C18_RoundTripObjectSchemas ==
  Converted =>
    /\ aiTool.jsonSchema.type = "object"
    /\ IF toolDefinition.inputSchema # NoItem /\ toolDefinition.inputSchema.type = "object"
       THEN /\ aiTool.jsonSchema.required = DeclaredRequired
            /\ DOMAIN aiTool.jsonSchema.properties = DOMAIN DeclaredProperties
       ELSE /\ aiTool.jsonSchema.required = {}
            /\ aiTool.jsonSchema.properties = EmptyObject

C18_Witness ==
  /\ Converted
  /\ toolDefinition.inputSchema # NoItem
  /\ toolDefinition.inputSchema.type = "object"
  /\ DOMAIN DeclaredProperties = {"path", "count"}
  /\ DeclaredProperties["path"].type = "object"
  /\ DeclaredRequired = {"path"}
  /\ DOMAIN aiTool.jsonSchema.properties = {"path", "count"}
  /\ aiTool.jsonSchema.required = {"path"}

\* C28: the two risk classifiers agree: the riskLevel the gate puts on a
\* permission request for a tool name is the riskLevel the registry gives
\* the tool of that name.
C28_ClassifiersAgree ==
  Converted =>
    ToolPermissionRequest(1, toolDefinition.name).riskLevel = aiTool.riskLevel

====
